---- MODULE Spec2Model ----
(***************************************************************************)
(* wanikani-apprentice: the WaniKani API client (wanikani.py), the         *)
(* process-wide subject store and its population (db.py), and the route    *)
(* handlers and middleware stack of the web application (app.py).          *)
(*                                                                         *)
(* The upstream API is the environment: every response is chosen when the  *)
(* request is answered.  Tasks are asyncio tasks; a task's step runs from  *)
(* one suspension point to the next; each item a generator yields to its   *)
(* consumer is a step of its own, and the steps of different tasks         *)
(* interleave freely.                                                      *)
(***************************************************************************)
EXTENDS Integers, Sequences, FiniteSets, TLC

(* ------------------------------ bounds --------------------------------- *)
\* non-null next_url links the upstream serves in total over the three walks
MaxLinks == 1
\* raw items in one page's data array
MaxPageLen == 2
\* raw items the upstream serves in total (all walks, plus the assignments
\* of the response being processed)
MaxItems == 2
\* non-success answers the upstream gives in total
MaxErrors == 1
\* raw assignments in one assignments response
MaxAssignments == 2
\* calls of populate_db, one after the other
MaxCycles == 2

(* --------------------------- program constants ------------------------- *)
None == [none |-> TRUE]
\* no exception
NoExc == ""

\* wanikani.py: class SubjectType
RADICAL == "radical"
KANJI == "kanji"
VOCABULARY == "vocabulary"
SubjectType == {RADICAL, KANJI, VOCABULARY}

BASE_URL == "https://api.wanikani.com/v2"
APPRENTICE_SRS_STAGES == <<1, 2, 3, 4>>
\* str(config.WANIKANI_API_KEY), the key of the startup population client
WANIKANI_API_KEY == "fake-key"

(* ------------------------------ upstream ------------------------------- *)
\* subject ids the upstream may use; ids are not unique across kinds
RawIds == {1, 2}
\* two versions of a raw subject: characters, meanings and readings differ
Variants == {"a", "b"}

RawMeanings(v) ==
    IF v = "a"
    THEN << [meaning |-> "m1", primary |-> TRUE, accepted_answer |-> TRUE],
            [meaning |-> "m2", primary |-> FALSE, accepted_answer |-> FALSE] >>
    ELSE << [meaning |-> "m2", primary |-> FALSE, accepted_answer |-> FALSE],
            [meaning |-> "m3", primary |-> TRUE, accepted_answer |-> TRUE],
            [meaning |-> "m1", primary |-> FALSE, accepted_answer |-> TRUE] >>

RawReadings(v) ==
    IF v = "a"
    THEN << [reading |-> "r1", accepted_answer |-> FALSE],
            [reading |-> "r2", accepted_answer |-> TRUE] >>
    ELSE << [reading |-> "r2", accepted_answer |-> TRUE],
            [reading |-> "r1", accepted_answer |-> TRUE] >>

\* one element of a subjects page's "data" array
RawSubject(k, i, v) ==
    IF k = RADICAL
    THEN [id |-> i, object |-> k,
          data |-> [document_url |-> "url", characters |-> v,
                    meanings |-> RawMeanings(v)]]
    ELSE [id |-> i, object |-> k,
          data |-> [document_url |-> "url", characters |-> v,
                    meanings |-> RawMeanings(v), readings |-> RawReadings(v)]]

RawSubjects(k) == { RawSubject(k, i, v) : i \in RawIds, v \in Variants }

\* sequences over S of length 0..n
RECURSIVE SeqsUpTo(_, _)
SeqsUpTo(S, n) ==
    IF n = 0 THEN { <<>> }
    ELSE LET shorter == SeqsUpTo(S, n - 1)
         IN  shorter \cup { Append(s, e) : s \in { t \in shorter : Len(t) = n - 1 }, e \in S }

\* HTTP statuses the upstream answers with: success and one non-success
Statuses == {200, 500}

\* the body of an upstream error answer: it has no "pages" and no "data" key
ErrorBody(status) == [error |-> "error", code |-> status]

\* the absolute URL of the page after cursor c, as the upstream writes it in
\* pages.next_url; its query may name another type than the walk's
NextUrl(t, c) ==
    [base |-> BASE_URL, path |-> "subjects",
     query |-> [types |-> t, hidden |-> "false", page_after_id |-> c]]

\* subject_type strings of raw assignments: the three kinds and one the client
\* does not know
RawSubjectTypes == SubjectType \cup {"kana_vocabulary"}

\* available_at strings; the first two name the same instant
Timestamps ==
    {"2024-01-01T00:00:00Z", "2024-01-01T01:00:00+01:00", "2024-01-01T02:00:00Z"}

\* (srs_stage, available_at) of the raw assignments the upstream serves
RawProgress ==
    { [srs_stage |-> 1, available_at |-> "2024-01-01T02:00:00Z"],
      [srs_stage |-> 4, available_at |-> "2024-01-01T01:00:00+01:00"] }

\* one element of the assignments response's "data" array
RawAssignment(t, i, p) ==
    [id |-> 0, object |-> "assignment",
     data |-> [subject_id |-> i, subject_type |-> t,
               srs_stage |-> p.srs_stage, available_at |-> p.available_at]]

RawAssignments ==
    { RawAssignment(t, i, p) : t \in RawSubjectTypes, i \in RawIds, p \in RawProgress }

(* ------------------------------ models.py ------------------------------ *)
\* the attributes of each attrs class; none has a default
Fields(k) ==
    IF k = RADICAL
    THEN {"id", "document_url", "characters", "character_svg_path", "meanings"}
    ELSE {"id", "document_url", "characters", "meanings", "readings"}

\* the generated __init__ of an attrs class
AttrsInitMissing(k, kwargs) == Fields(k) \ DOMAIN kwargs

AttrsInit(k, kwargs) ==
    [n \in DOMAIN kwargs \cup {"class"} |-> IF n = "class" THEN k ELSE kwargs[n]]

(* ----------------------------- wanikani.py ----------------------------- *)
EmptyParams == [n \in {} |-> ""]

MergeParamsKeepQuery(query, params) ==
    [n \in DOMAIN query \cup DOMAIN params |->
        IF n \in DOMAIN query THEN query[n] ELSE params[n]]

\* httpx builds the URL of client.get(url, params=params): the params are set
\* over the query the url already has, key by key
MergeParams(query, params) ==
    [n \in DOMAIN query \cup DOMAIN params |->
        IF n \in DOMAIN params THEN params[n] ELSE query[n]]

\* httpx.AsyncClient(): a client with the library's default headers
AsyncClient == [headers |-> ("User-Agent" :> "python-httpx")]

\* a constructor that keeps the key in the client's default headers
__attrs_post_init__WithKey(api_key, client) ==
    [client EXCEPT !.headers =
        ("Wanikani-Revision" :> "20170710") @@ [Authorization |-> "Bearer " \o api_key] @@ @]

\* WaniKaniAPIClient(api_key, client): self.client.headers.update(...); the
\* client as the instance leaves it
__attrs_post_init__(api_key, client) ==
    [client EXCEPT !.headers = ("Wanikani-Revision" :> "20170710") @@ @]

\* httpx sends the client's default headers with those of the call set over
\* them
MergeHeaders(defaults, headers) == headers @@ defaults

\* WaniKaniAPIClient._request: the GET it issues through self.client
_request(client, api_key, path, params) ==
    [base |-> BASE_URL, path |-> path.path, query |-> path.query,
     params |-> params,
     headers |-> MergeHeaders(client.headers, [Authorization |-> "Bearer " \o api_key])]

\* the query string of a request as it goes on the wire
WireQuery(req) == MergeParams(req.query, req.params)

StripBaseNoQuery(url) == [path |-> url.path, query |-> EmptyParams]

\* next_url.split(f"{self.BASE_URL}/", 1)[1]
StripBase(url) == [path |-> url.path, query |-> url.query]

PageItemsButFirst(body) == IF body.data = <<>> THEN <<>> ELSE Tail(body.data)

\* `for subject in resp["data"]`: the items _subjects is going to yield
PageItems(body) == body.data

\* the params _subjects passes on every iteration of its loop
SubjectsParams(subject_type) == [types |-> subject_type, hidden |-> "false"]

AcceptedAll(ms, key) == [i \in 1..Len(ms) |-> ms[i][key]]

\* [m["meaning"] for m in ms if m["accepted_answer"]]
Accepted(ms, key) ==
    LET kept == SelectSeq(ms, LAMBDA m : m.accepted_answer)
    IN  [i \in 1..Len(kept) |-> kept[i][key]]

\* the keyword arguments radicals()/kanji()/vocabulary() pass to the class
SubjectKwargs(k, raw) ==
    IF k = RADICAL
    THEN [id |-> raw.id,
          document_url |-> raw.data.document_url,
          characters |-> raw.data.characters,
          meanings |-> Accepted(raw.data.meanings, "meaning")]
    ELSE [id |-> raw.id,
          document_url |-> raw.data.document_url,
          characters |-> raw.data.characters,
          meanings |-> Accepted(raw.data.meanings, "meaning"),
          readings |-> Accepted(raw.data.readings, "reading")]

\* ",".join(str(stage) for stage in APPRENTICE_SRS_STAGES)
RECURSIVE JoinStages(_)
JoinStages(stages) ==
    IF Len(stages) = 0 THEN ""
    ELSE IF Len(stages) = 1 THEN ToString(stages[1])
    ELSE ToString(stages[1]) \o "," \o JoinStages(Tail(stages))

\* the params of the one request of assignments()
AssignmentsParams ==
    [srs_stages |-> JoinStages(APPRENTICE_SRS_STAGES), hidden |-> "false"]

\* ciso8601.parse_datetime: the instant (hours after 2024-01-01T00:00Z) a
\* timestamp with offset names
ParseDatetime(s) ==
    CASE s = "2024-01-01T00:00:00Z" -> 0
      [] s = "2024-01-01T01:00:00+01:00" -> 0
      [] s = "2024-01-01T02:00:00Z" -> 2

PartitionOfElseVocabulary(subject_type) ==
    IF subject_type = RADICAL THEN RADICAL
    ELSE IF subject_type = KANJI THEN KANJI
    ELSE VOCABULARY

PartitionOfSwapped(subject_type) ==
    IF subject_type = RADICAL THEN RADICAL
    ELSE IF subject_type = KANJI THEN VOCABULARY
    ELSE IF subject_type = VOCABULARY THEN KANJI
    ELSE "NotImplementedError"

\* the if/elif chain of assignments(): the partition read for a subject_type,
\* or the exception its else branch raises
PartitionOf(subject_type) ==
    IF subject_type = RADICAL THEN RADICAL
    ELSE IF subject_type = KANJI THEN KANJI
    ELSE IF subject_type = VOCABULARY THEN VOCABULARY
    ELSE "NotImplementedError"

\* Assignment(subject=..., srs_stage=..., available_at=...)
Assignment(subject, raw) ==
    [class |-> "Assignment",
     subject |-> subject,
     srs_stage |-> raw.data.srs_stage,
     available_at |-> ParseDatetime(raw.data.available_at)]

RECURSIVE AssignmentsLoopNewestFirst(_, _, _, _)
AssignmentsLoopNewestFirst(data, db, out, reads) ==
    IF data = <<>> THEN [out |-> out, reads |-> reads, exc |-> NoExc]
    ELSE LET raw == Head(data)
             part == PartitionOf(raw.data.subject_type)
             read == [partition |-> part, key |-> raw.data.subject_id]
         IN  IF part \notin SubjectType
             THEN [out |-> out, reads |-> reads, exc |-> part]
             ELSE IF raw.data.subject_id \notin DOMAIN db[part]
             THEN [out |-> out, reads |-> Append(reads, read), exc |-> "KeyError"]
             ELSE AssignmentsLoopNewestFirst(
                      Tail(data), db,
                      << Assignment(db[part][raw.data.subject_id], raw) >> \o out,
                      Append(reads, read))

\* the loop of assignments() over resp.json()["data"]: what it has yielded
\* when it ends, the lookups DB.<kind>[subject_id] it has made, and the
\* exception it ends with (NoExc: it ran to the end)
RECURSIVE AssignmentsLoop(_, _, _, _)
AssignmentsLoop(data, db, out, reads) ==
    IF data = <<>> THEN [out |-> out, reads |-> reads, exc |-> NoExc]
    ELSE LET raw == Head(data)
             part == PartitionOf(raw.data.subject_type)
             read == [partition |-> part, key |-> raw.data.subject_id]
         IN  IF part \notin SubjectType
             THEN [out |-> out, reads |-> reads, exc |-> part]
             ELSE IF raw.data.subject_id \notin DOMAIN db[part]
             THEN [out |-> out, reads |-> Append(reads, read), exc |-> "KeyError"]
             ELSE AssignmentsLoop(Tail(data), db,
                                  Append(out, Assignment(db[part][raw.data.subject_id], raw)),
                                  Append(reads, read))

(* -------------------------------- db.py -------------------------------- *)
_populateKeepFirst(db, k, subject) ==
    [db EXCEPT ![k] =
        [i \in DOMAIN @ \cup {subject.id} |-> IF i \in DOMAIN @ THEN @[i] ELSE subject]]

_populateOnePartition(db, k, subject) ==
    [db EXCEPT ![KANJI] =
        [i \in DOMAIN @ \cup {subject.id} |-> IF i = subject.id THEN subject ELSE @[i]]]

\* DB.<k> = {subject.id: subject}
_populateReplacing(db, k, subject) ==
    [db EXCEPT ![k] = [i \in {subject.id} |-> subject]]

\* the subject stored under the next free number instead of its id
_populateAppend(db, k, subject) ==
    [db EXCEPT ![k] =
        [i \in DOMAIN db[k] \cup {Cardinality(DOMAIN db[k]) + 1} |->
            IF i \in DOMAIN db[k] THEN db[k][i] ELSE subject]]

\* DB.<kind>[subject.id] = subject
_populate(db, k, subject) ==
    [db EXCEPT ![k] =
        [i \in DOMAIN @ \cup {subject.id} |-> IF i = subject.id THEN subject ELSE @[i]]]

CreatedTasksOne == {VOCABULARY}

\* the tasks populate_db has created when it reaches its first await
CreatedTasks == {RADICAL, KANJI, VOCABULARY}

AwaitOrderTwo == <<VOCABULARY, KANJI>>

\* the order of the awaits of populate_db
AwaitOrder == <<VOCABULARY, KANJI, RADICAL>>

(* -------------------------- app.py: handlers --------------------------- *)
\* constants.py
SESSION_API_KEY == "wanikani-api-key"

\* a session without entries
EmptySession == [n \in {} |-> ""]

\* API keys without surrounding whitespace
BareKeys == {"key-1", "key-2"}

\* what a browser may type into the login form
FormKeys == BareKeys \cup {"key-1" \o "    ", " " \o "key-2"}

\* the forms a POST /login may carry: with and without the api_key field
Forms == { [api_key |-> f] : f \in FormKeys } \cup { [other |-> "x"] }

StripNothing(str) == str

\* api_key.strip()
Strip(str) ==
    CASE str = "key-1" \o "    " -> "key-1"
      [] str = " " \o "key-2" -> "key-2"
      [] OTHER -> str

\* utils.is_logged_in: request.session.get(SESSION_API_KEY) is not None
is_logged_in(sess) == SESSION_API_KEY \in DOMAIN sess

\* request.session[SESSION_API_KEY] = api_key
SessionSet(sess, api_key) ==
    [n \in DOMAIN sess \cup {SESSION_API_KEY} |->
        IF n = SESSION_API_KEY THEN api_key ELSE sess[n]]

SessionClearNothing(sess) == sess

\* request.session.clear()
SessionClear(sess) == EmptySession

\* statuses the upstream answers the key-validation call with
UserStatuses == {200, 401, 403, 500}

\* the GET of WaniKaniAPIClient.username()
username_request(client, api_key) ==
    _request(client, api_key, [path |-> "user", query |-> EmptyParams], EmptyParams)

\* WaniKaniAPIClient.username() once it is answered: it returns on success and
\* raises httpx.HTTPStatusError carrying the response otherwise
username(status) ==
    IF status = 200
    THEN [exc |-> NoExc, status_code |-> status]
    ELSE [exc |-> "HTTPStatusError", status_code |-> status]

InvalidCredentialAnyDenial(err) == err.status_code \in {401, 403}

\* `if err.response.status_code == 401` of login
InvalidCredential(err) == err.status_code = 401

EmptyContext == [n \in {} |-> ""]
NoRequest == [method |-> "", path |-> ""]

\* an HTTP response of the application; upstream is the status of the
\* upstream answer its handler got (0: it got none)
NoResponse ==
    [request |-> NoRequest, status |-> 0, location |-> "", template |-> "",
     context |-> EmptyContext, exc |-> NoExc, upstream |-> 0]

\* RedirectResponse(request.url_for(name), status_code)
RedirectResponse(location, status_code) ==
    [NoResponse EXCEPT !.status = status_code, !.location = location]

\* templates.TemplateResponse(name, context, status_code)
TemplateResponse(name, context, status_code) ==
    [NoResponse EXCEPT !.status = status_code, !.template = name, !.context = context]

\* Response()
PlainResponse == [NoResponse EXCEPT !.status = 200]

\* an exception that leaves a handler is answered 500 by Starlette
ServerError(exc) == [NoResponse EXCEPT !.status = 500, !.exc = exc]

\* request.url_for(name)
url_for(name) == "/" \o name

SortNot(assignments) == assignments

\* assignments.sort(key=operator.attrgetter("available_at")): list.sort is a
\* stable sort
RECURSIVE SortByAvailableAt(_)
SortByAvailableAt(assignments) ==
    IF assignments = <<>> THEN <<>>
    ELSE LET n == Len(assignments)
             a == assignments[n]
             sorted == SortByAvailableAt(SubSeq(assignments, 1, n - 1))
             before == SelectSeq(sorted, LAMBDA b : b.available_at <= a.available_at)
             after == SelectSeq(sorted, LAMBDA b : b.available_at > a.available_at)
         IN  before \o << a >> \o after

\* the isinstance chain of the assignments handler: the assignments whose
\* subject is of class k, in the order of the list
OfClass(assignments, k) == SelectSeq(assignments, LAMBDA a : a.subject.class = k)

\* the context of assignments.html.j2 (without request and now)
AssignmentsContext(assignments) ==
    LET sorted == SortByAvailableAt(assignments)
    IN  [radicals |-> OfClass(sorted, RADICAL),
         kanji |-> OfClass(sorted, KANJI),
         vocabulary |-> OfClass(sorted, VOCABULARY)]

\* pc: "idle" (no handler is suspended), "login", "assignments"
NoHandler == [pc |-> "idle", form |-> EmptyContext, api_key |-> "", req |-> None]

(* ------------------------ app.py: the application ---------------------- *)
\* the environment the configuration is read from
Environments == { [HTTPS_ONLY |-> h] : h \in BOOLEAN }

\* the attributes of the config module
ConfigModule(env) ==
    [DEBUG |-> FALSE,
     TRUSTED_HOSTS |-> {"testserver"},
     HTTPS_ONLY |-> env.HTTPS_ONLY,
     WANIKANI_API_KEY |-> WANIKANI_API_KEY,
     SESSION_SECRET |-> "session-secret",
     SENTRY_ENABLED |-> FALSE]

\* create_app(): the middleware list it builds, outermost first, or the
\* exception it ends with
create_app(config) ==
    LET first == << "SentryAsgiMiddleware", "LBHeartbeatMiddleware",
                    "TrustedHostMiddleware" >>
        redirect == IF config.HTTPS_ONLY THEN << "HTTPSRedirectMiddleware" >> ELSE <<>>
    IN  IF "SESSION_KEY" \notin DOMAIN config
        THEN [exc |-> "AttributeError", middleware |-> <<>>]
        ELSE [exc |-> NoExc,
              middleware |-> first \o redirect \o << "SessionMiddleware" >>]

\* the requests a client may send: scope type, scheme, Host header and path
Paths ==
    {"/__lbheartbeat__", "/", "/login", "/logout", "/assignments", "/test-500",
     "/static/x", "/radical-svg/x"}

ClientRequests ==
    { [type |-> t, secure |-> sec, host |-> h, path |-> p] :
        t \in {"http", "websocket"}, sec \in BOOLEAN,
        h \in {"testserver", "other.example"}, p \in Paths }

\* the answer of the middleware stack to a request: the middleware that
\* answers it, or "router" when the request reaches the routes; ran lists the
\* middleware the request went through
RECURSIVE Through(_, _, _, _)
Through(stack, config, req, ran) ==
    IF stack = <<>>
    THEN [by |-> "router", status |-> 0, body |-> "", location |-> "", ran |-> ran]
    ELSE LET m == Head(stack)
             seen == Append(ran, m)
             pass == Through(Tail(stack), config, req, seen)
         IN  IF m = "LBHeartbeatMiddleware"
             THEN IF req.type = "http" /\ req.path = "/__lbheartbeat__"
                  THEN [by |-> m, status |-> 200, body |-> "OK", location |-> "",
                        ran |-> seen]
                  ELSE pass
             ELSE IF m = "TrustedHostMiddleware"
             THEN IF req.host \notin config.TRUSTED_HOSTS
                  THEN [by |-> m, status |-> 400, body |-> "Invalid host header",
                        location |-> "", ran |-> seen]
                  ELSE pass
             ELSE IF m = "HTTPSRedirectMiddleware"
             THEN IF ~req.secure
                  THEN [by |-> m, status |-> 307, body |-> "",
                        location |-> (IF req.type = "http" THEN "https" ELSE "wss")
                                     \o "://" \o req.host \o req.path,
                        ran |-> seen]
                  ELSE pass
             ELSE pass

\* what a client gets from the application a server built with create_app()
Served(env, req) ==
    LET app == create_app(ConfigModule(env))
    IN  IF app.exc # NoExc
        THEN [by |-> "nothing", status |-> 0, body |-> "", location |-> "",
              ran |-> <<>>, exc |-> app.exc]
        ELSE [n \in {"by", "status", "body", "location", "ran", "exc"} |->
                IF n = "exc" THEN NoExc
                ELSE Through(app.middleware, ConfigModule(env), req, <<>>)[n]]

NoProbe == [sent |-> FALSE]

(* ------------------------------- state --------------------------------- *)
VARIABLES
    DB,         \* db.DB: kind -> (id -> subject)
    task,       \* kind -> the population task of that kind
    populate,   \* populate_db: where it is ("idle", index into AwaitOrder, "returned", "raised")
    reported,   \* what the caller of populate_db has been given, in order
    requests,   \* kind -> the requests its walk has issued, in order
    pages,      \* kind -> the responses its walk has received, in order
    yielded,    \* kind -> the raw items _subjects has yielded, in order
    asg,        \* the latest call of assignments(): its request, the data it
                \* was answered, what it yielded and how it ended
    session,    \* request.session of the browser: the dictionary the session
                \* middleware keeps in its cookie
    handler,    \* the route handler that is suspended at an upstream call
    response,   \* the answer to the request the browser sent last
    lastAuth,   \* last: which of a successful login ("login") and a logout
                \* ("logout") the browser's session saw last ("none": neither);
                \* ever: a login has succeeded
    probe,      \* a request sent to the application create_app() builds, and
                \* what came back
    previous,   \* when populate_db has been called again: the store and the
                \* pages of the cycle before, and how that cycle ended
    httpx_client \* resources.httpx_client, the client every WaniKaniAPIClient
                \* is given: its default headers

popVars == <<DB, task, populate, reported, requests, pages, yielded, previous>>
webVars == <<session, handler, response, lastAuth>>
vars ==
    <<DB, task, populate, reported, requests, pages, yielded, asg,
      session, handler, response, lastAuth, probe, previous, httpx_client>>

EmptyPartition == [i \in {} |-> None]

\* pc: "none" (not created), "created", "wait" (a request is in flight),
\* "yield" (iterating resp["data"]), "done", "failed"
NoTask == [pc |-> "none", next_url |-> None, buf |-> <<>>, exc |-> NoExc]

\* a walk that starts where another one was
FirstPathAfterCursor == [path |-> "subjects", query |-> [page_after_id |-> 1]]

\* next_url = "subjects"
FirstPath == [path |-> "subjects", query |-> EmptyParams]

\* pc: "idle" (never called), "wait" (its request is in flight), "done";
\* api_key: the key of the WaniKaniAPIClient the call is made on;
\* cursor: pages.next_url of the answer (None when it has none); phase: where
\* populate_db was when the answer was processed
NoCall ==
    [pc |-> "idle", req |-> None, data |-> <<>>, out |-> <<>>, reads |-> <<>>,
     exc |-> NoExc, cursor |-> None, phase |-> "", api_key |-> ""]

\* the API key of the logged-in session that calls assignments()
SessionKeys == {"session-key"}

\* populate_db has been called once at most
NoCycle ==
    [DB |-> [k \in SubjectType |-> EmptyPartition],
     pages |-> [k \in SubjectType |-> <<>>],
     outcome |-> "none"]

Init ==
    /\ asg = NoCall
    /\ session = EmptySession
    /\ handler = NoHandler
    /\ response = NoResponse
    /\ lastAuth = [last |-> "none", ever |-> FALSE]
    /\ probe = NoProbe
    /\ DB = [k \in SubjectType |-> EmptyPartition]
    /\ task = [k \in SubjectType |-> NoTask]
    /\ populate = [pc |-> "idle", at |-> 0]
    /\ reported = <<>>
    /\ requests = [k \in SubjectType |-> <<>>]
    /\ pages = [k \in SubjectType |-> <<>>]
    /\ yielded = [k \in SubjectType |-> <<>>]
    /\ previous = NoCycle
    /\ httpx_client = __attrs_post_init__(WANIKANI_API_KEY, AsyncClient)

(* ------------------------- upstream bookkeeping ------------------------ *)
RECURSIVE SumDataLen(_)
SumDataLen(ps) ==
    IF ps = <<>> THEN 0
    ELSE (IF "data" \in DOMAIN Head(ps).body THEN Len(Head(ps).body.data) ELSE 0)
         + SumDataLen(Tail(ps))

RECURSIVE CountLinks(_)
CountLinks(ps) ==
    IF ps = <<>> THEN 0
    ELSE (IF "pages" \in DOMAIN Head(ps).body /\ Head(ps).body.pages.next_url # None
          THEN 1 ELSE 0)
         + CountLinks(Tail(ps))

RECURSIVE CountErrors(_)
CountErrors(ps) ==
    IF ps = <<>> THEN 0
    ELSE (IF Head(ps).status # 200 THEN 1 ELSE 0) + CountErrors(Tail(ps))

ErrorsServed ==
    CountErrors(pages[RADICAL]) + CountErrors(pages[KANJI]) + CountErrors(pages[VOCABULARY])

ItemsServed ==
    SumDataLen(pages[RADICAL]) + SumDataLen(pages[KANJI]) + SumDataLen(pages[VOCABULARY])

LinksServed ==
    CountLinks(pages[RADICAL]) + CountLinks(pages[KANJI]) + CountLinks(pages[VOCABULARY])

Min(a, b) == IF a < b THEN a ELSE b

\* the answers the upstream may give to the next page request of walk k
SubjectsResponses(k) ==
    LET datas == SeqsUpTo(RawSubjects(k), Min(MaxPageLen, MaxItems - ItemsServed))
        nexts == {None} \cup
                 (IF LinksServed < MaxLinks
                  THEN { NextUrl(t, Len(pages[k]) + 1) : t \in {k, KANJI} }
                  ELSE {})
        bodies == { [pages |-> [next_url |-> n], data |-> d] : n \in nexts, d \in datas }
        statuses == IF ErrorsServed < MaxErrors THEN Statuses ELSE {200}
    IN  { [status |-> s, body |-> b] : s \in statuses, b \in bodies }
        \cup { [status |-> s, body |-> ErrorBody(s)] : s \in statuses \ {200} }

(* ------------------------ the population tasks ------------------------- *)
\* `while next_url is not None:` with the request of the loop body
LoopHead(t) ==
    IF t.next_url = None
    THEN [t EXCEPT !.pc = "done", !.buf = <<>>]
    ELSE [t EXCEPT !.pc = "wait", !.buf = <<>>]

LoopRequest(k, t) ==
    IF t.next_url = None
    THEN <<>>
    ELSE << _request(httpx_client, WANIKANI_API_KEY, t.next_url, SubjectsParams(k)) >>

\* the task of kind k starts running: _populate_<k> iterates api.<k>(), which
\* iterates _subjects, which issues its first request
Start(k) ==
    /\ task[k].pc = "created"
    /\ LET t == [task[k] EXCEPT !.next_url = FirstPath]
       IN  /\ task' = [task EXCEPT ![k] = LoopHead(t)]
           /\ requests' = [requests EXCEPT ![k] = @ \o LoopRequest(k, t)]
    /\ UNCHANGED <<DB, populate, reported, pages, yielded, asg, webVars, probe, previous, httpx_client>>

\* _subjects wrapped so that a failed page request empties the partition
RespondRetracting(k, resp) ==
    /\ task[k].pc = "wait"
    /\ pages' = [pages EXCEPT ![k] = Append(@, resp)]
    /\ IF "pages" \notin DOMAIN resp.body
       THEN /\ task' = [task EXCEPT ![k] = [@ EXCEPT !.pc = "failed", !.exc = "KeyError"]]
            /\ DB' = [DB EXCEPT ![k] = EmptyPartition]
            /\ UNCHANGED requests
       ELSE LET n == resp.body.pages.next_url
                t == [task[k] EXCEPT
                        !.next_url = IF n = None THEN None ELSE StripBase(n),
                        !.buf = PageItems(resp.body)]
            IN  /\ IF t.buf = <<>>
                   THEN /\ task' = [task EXCEPT ![k] = LoopHead(t)]
                        /\ requests' = [requests EXCEPT ![k] = @ \o LoopRequest(k, t)]
                   ELSE /\ task' = [task EXCEPT ![k] = [t EXCEPT !.pc = "yield"]]
                        /\ UNCHANGED requests
                /\ UNCHANGED DB
    /\ UNCHANGED <<populate, reported, yielded, asg, webVars, probe, previous, httpx_client>>

\* _subjects requesting the next page as soon as a page has arrived, before
\* its items are yielded
RespondPrefetching(k, resp) ==
    /\ task[k].pc = "wait"
    /\ pages' = [pages EXCEPT ![k] = Append(@, resp)]
    /\ IF "pages" \notin DOMAIN resp.body
       THEN /\ task' = [task EXCEPT ![k] = [@ EXCEPT !.pc = "failed", !.exc = "KeyError"]]
            /\ UNCHANGED requests
       ELSE LET n == resp.body.pages.next_url
                t == [task[k] EXCEPT
                        !.next_url = IF n = None THEN None ELSE StripBase(n),
                        !.buf = PageItems(resp.body)]
            IN  /\ requests' = [requests EXCEPT ![k] = @ \o LoopRequest(k, t)]
                /\ IF t.buf = <<>>
                   THEN task' = [task EXCEPT ![k] = LoopHead(t)]
                   ELSE task' = [task EXCEPT ![k] = [t EXCEPT !.pc = "yield"]]
    /\ UNCHANGED <<DB, populate, reported, yielded, asg, webVars, probe, previous, httpx_client>>

\* the request in flight is answered; _subjects reads the body
Respond(k, resp) ==
    /\ task[k].pc = "wait"
    /\ pages' = [pages EXCEPT ![k] = Append(@, resp)]
    /\ IF "pages" \notin DOMAIN resp.body
       THEN \* resp["pages"] raises KeyError
            /\ task' = [task EXCEPT ![k] = [@ EXCEPT !.pc = "failed", !.exc = "KeyError"]]
            /\ UNCHANGED requests
       ELSE LET n == resp.body.pages.next_url
                t == [task[k] EXCEPT
                        !.next_url = IF n = None THEN None ELSE StripBase(n),
                        !.buf = PageItems(resp.body)]
            IN  IF t.buf = <<>>
                THEN /\ task' = [task EXCEPT ![k] = LoopHead(t)]
                     /\ requests' = [requests EXCEPT ![k] = @ \o LoopRequest(k, t)]
                ELSE /\ task' = [task EXCEPT ![k] = [t EXCEPT !.pc = "yield"]]
                     /\ UNCHANGED requests
    /\ UNCHANGED <<DB, populate, reported, yielded, asg, webVars, probe, previous, httpx_client>>

\* _subjects yields the next item of the page; radicals()/kanji()/vocabulary()
\* builds the subject and yields it; _populate_<k> stores it and asks for the
\* next item
Yield(k) ==
    /\ task[k].pc = "yield"
    /\ LET raw == Head(task[k].buf)
           kwargs == SubjectKwargs(k, raw)
       IN  /\ yielded' = [yielded EXCEPT ![k] = Append(@, raw)]
           /\ IF AttrsInitMissing(k, kwargs) # {}
              THEN \* __init__() missing a required argument
                   /\ task' = [task EXCEPT ![k] =
                                  [@ EXCEPT !.pc = "failed", !.exc = "TypeError"]]
                   /\ UNCHANGED <<DB, requests>>
              ELSE LET t == [task[k] EXCEPT !.buf = Tail(@)]
                   IN  /\ DB' = _populate(DB, k, AttrsInit(k, kwargs))
                       /\ IF t.buf = <<>>
                          THEN /\ task' = [task EXCEPT ![k] = LoopHead(t)]
                               /\ requests' = [requests EXCEPT ![k] = @ \o LoopRequest(k, t)]
                          ELSE /\ task' = [task EXCEPT ![k] = t]
                               /\ UNCHANGED requests
    /\ UNCHANGED <<populate, reported, pages, asg, webVars, probe, previous, httpx_client>>

(* ----------------------------- populate_db ----------------------------- *)
\* populate_db is called: the three create_task calls, up to `await vocabulary`
PopulateCall ==
    /\ populate.pc = "idle"
    /\ task' = [k \in SubjectType |->
                  IF k \in CreatedTasks THEN [NoTask EXCEPT !.pc = "created"] ELSE task[k]]
    /\ populate' = [pc |-> "await", at |-> 1]
    /\ UNCHANGED <<DB, reported, requests, pages, yielded, asg, webVars, probe, previous, httpx_client>>

FinishedAlways(t) == TRUE

FinishedWhenStarted(t) == t.pc # "created"

\* `await <task>` resumes once the task has finished
Finished(t) == t.pc \in {"done", "failed"}

RaisesNever(t) == FALSE

\* `await <task>` raises the exception the task ended with
Raises(t) == t.pc = "failed"

\* `await <task>`: resumes with the task's result, or raises its exception
Await ==
    /\ populate.pc = "await"
    /\ LET t == task[AwaitOrder[populate.at]]
       IN  /\ Finished(t)
           /\ IF Raises(t)
              THEN /\ populate' = [populate EXCEPT !.pc = "raised"]
                   /\ reported' = Append(reported, t.exc)
              ELSE IF populate.at = Len(AwaitOrder)
              THEN /\ populate' = [populate EXCEPT !.pc = "returned"]
                   /\ reported' = Append(reported, "returned")
              ELSE /\ populate' = [populate EXCEPT !.at = @ + 1]
                   /\ UNCHANGED reported
    /\ UNCHANGED <<DB, task, requests, pages, yielded, asg, webVars, probe, previous, httpx_client>>

\* populate_db is called again, when the cycle before has ended and its tasks
\* have: the three create_task calls, up to `await vocabulary`.  requests,
\* pages and yielded start over: they are those of the walks of this cycle
PopulateAgain ==
    /\ populate.pc \in {"returned", "raised"}
    /\ Len(reported) < MaxCycles
    /\ \A k \in SubjectType : task[k].pc \in {"done", "failed"}
    /\ previous' = [DB |-> DB, pages |-> pages, outcome |-> populate.pc]
    /\ task' = [k \in SubjectType |->
                  IF k \in CreatedTasks THEN [NoTask EXCEPT !.pc = "created"] ELSE task[k]]
    /\ populate' = [pc |-> "await", at |-> 1]
    /\ requests' = [k \in SubjectType |-> <<>>]
    /\ pages' = [k \in SubjectType |-> <<>>]
    /\ yielded' = [k \in SubjectType |-> <<>>]
    /\ UNCHANGED <<DB, reported, asg, webVars, probe, httpx_client>>

(* ---------------------------- assignments() ---------------------------- *)
\* the answers the upstream may give to the assignments request
AssignmentsResponses ==
    { [status |-> 200, body |-> [data |-> d]] : d \in SeqsUpTo(RawAssignments, MaxAssignments) }
    \cup { [status |-> s, body |-> ErrorBody(s)] : s \in Statuses \ {200} }

\* the absolute URL of a second page of assignments, as the upstream writes it
\* in pages.next_url
NextAssignmentsUrl ==
    [base |-> BASE_URL, path |-> "assignments",
     query |-> [srs_stages |-> "1,2,3,4", hidden |-> "false", page_after_id |-> 1]]

\* the answers whose body names a next page
AssignmentsResponsesWithCursor ==
    { [status |-> 200, body |-> [pages |-> [next_url |-> NextAssignmentsUrl], data |-> d]] :
        d \in SeqsUpTo(RawAssignments, MaxAssignments) }

\* pages.next_url of an answer, None when the body has no "pages"
CursorOf(body) == IF "pages" \in DOMAIN body THEN body.pages.next_url ELSE None

\* the answers of a well-behaved upstream with single-page subject collections
\* of one version per subject
SinglePages(k) ==
    { [status |-> 200, body |-> [pages |-> [next_url |-> None], data |-> d]] :
        d \in SeqsUpTo({ RawSubject(k, i, "a") : i \in RawIds },
                       Min(MaxPageLen, MaxItems - ItemsServed)) }

\* WaniKaniAPIClient(api_key, client=httpx_client).assignments(), iterated up
\* to its request
CallAssignments(api_key) ==
    [NoCall EXCEPT
        !.pc = "wait",
        !.api_key = api_key,
        !.req = _request(__attrs_post_init__(api_key, httpx_client), api_key,
                         [path |-> "assignments", query |-> EmptyParams],
                         AssignmentsParams)]

\* assignments() following pages.next_url the way _subjects does
AnswerAssignmentsFollowing(call, resp, db) ==
    IF "data" \notin DOMAIN resp.body
    THEN [call EXCEPT !.pc = "done", !.exc = "KeyError"]
    ELSE LET r == AssignmentsLoop(resp.body.data, db, <<>>, <<>>)
             cursor == CursorOf(resp.body)
         IN  IF cursor # None /\ r.exc = NoExc
             THEN [call EXCEPT !.req = [@ EXCEPT !.path = StripBase(cursor).path,
                                                 !.query = StripBase(cursor).query],
                               !.data = resp.body.data, !.out = r.out,
                               !.reads = r.reads, !.cursor = cursor]
             ELSE [call EXCEPT !.pc = "done", !.data = resp.body.data,
                               !.out = r.out, !.reads = r.reads, !.exc = r.exc,
                               !.cursor = cursor]

\* the call once its request is answered: the loop over resp.json()["data"]
\* runs to its end or to the first exception (the consumer takes every item
\* as it is yielded); resp.json()["pages"] is not read
AnswerAssignments(call, resp, db) ==
    IF "data" \notin DOMAIN resp.body
    THEN [call EXCEPT !.pc = "done", !.exc = "KeyError"]
    ELSE LET r == AssignmentsLoop(resp.body.data, db, <<>>, <<>>)
         IN  [call EXCEPT !.pc = "done", !.data = resp.body.data,
                          !.out = r.out, !.reads = r.reads, !.exc = r.exc,
                          !.cursor = CursorOf(resp.body)]

\* assignments() is called and iterated: it issues its request
AssignmentsCall(api_key) ==
    /\ asg.pc \in {"idle", "done"}
    /\ asg' = CallAssignments(api_key)
    /\ httpx_client' = __attrs_post_init__(api_key, httpx_client)
    /\ UNCHANGED <<popVars, webVars, probe>>

\* assignments() holding its answer back until populate_db has returned
AssignmentsRespondAfterPopulation(resp) ==
    /\ asg.pc = "wait"
    /\ populate.pc = "returned"
    /\ asg' = [AnswerAssignments(asg, resp, DB) EXCEPT !.phase = populate.pc]
    /\ UNCHANGED <<popVars, webVars, probe, httpx_client>>

\* assignments() keeping every Assignment it yields in the partition of its
\* subject, under the subject's id
AssignmentsRespondCaching(resp) ==
    /\ asg.pc = "wait"
    /\ LET call == [AnswerAssignments(asg, resp, DB) EXCEPT !.phase = populate.pc]
       IN  /\ asg' = call
           /\ DB' = [k \in SubjectType |->
                       [i \in DOMAIN DB[k] |->
                           IF \E n \in 1..Len(call.out) :
                                 call.out[n].subject.class = k /\ call.out[n].subject.id = i
                           THEN call.out[CHOOSE n \in 1..Len(call.out) :
                                            call.out[n].subject.class = k
                                            /\ call.out[n].subject.id = i]
                           ELSE DB[k][i]]]
    /\ UNCHANGED <<task, populate, reported, requests, pages, yielded, previous,
                   webVars, probe, httpx_client>>

\* the request is answered
AssignmentsRespond(resp) ==
    /\ asg.pc = "wait"
    /\ asg' = [AnswerAssignments(asg, resp, DB) EXCEPT !.phase = populate.pc]
    /\ UNCHANGED <<popVars, webVars, probe, httpx_client>>

Next ==
    \/ PopulateCall
    \/ Await
    \/ \E k \in SubjectType : Start(k)
    \/ \E k \in SubjectType : \E resp \in SubjectsResponses(k) : Respond(k, resp)
    \/ \E k \in SubjectType : Yield(k)

Spec == Init /\ [][Next]_vars

\* the answers of an upstream that serves one version of each subject, one
\* item a page at most, with next pages and error answers
ChainPages(k) ==
    LET datas == SeqsUpTo({ RawSubject(k, i, "a") : i \in RawIds },
                          Min(1, MaxItems - ItemsServed))
        nexts == {None} \cup
                 (IF LinksServed < MaxLinks
                  THEN { NextUrl(k, Len(pages[k]) + 1) }
                  ELSE {})
    IN  { [status |-> 200, body |-> [pages |-> [next_url |-> n], data |-> d]] :
            n \in nexts, d \in datas }
        \cup (IF ErrorsServed < MaxErrors
              THEN { [status |-> s, body |-> ErrorBody(s)] : s \in Statuses \ {200} }
              ELSE {})

NextFair ==
    \/ PopulateCall
    \/ Await
    \/ \E k \in SubjectType : Start(k)
    \/ \E k \in SubjectType : \E resp \in ChainPages(k) : Respond(k, resp)
    \/ \E k \in SubjectType : Yield(k)

\* the event loop runs every task that can run, and the upstream answers
\* every request
Fairness ==
    \A k \in SubjectType :
        /\ WF_vars(Start(k))
        /\ WF_vars(\E resp \in ChainPages(k) : Respond(k, resp))
        /\ WF_vars(Yield(k))

\* the population against an upstream whose next_url chains end, scheduled
\* fairly
SpecFair == Init /\ [][NextFair]_vars /\ Fairness

\* the answers of an upstream with single-page subject collections of one
\* subject at most, which may have changed a subject after the first cycle
CyclePages(k) ==
    { [status |-> 200, body |-> [pages |-> [next_url |-> None], data |-> d]] :
        d \in SeqsUpTo({ RawSubject(k, i, v) :
                           i \in RawIds,
                           v \in IF reported = <<>> THEN {"a"} ELSE Variants },
                       Min(1, MaxItems - ItemsServed)) }

\* the answers to the assignments request with one assignment, of a kanji
CycleAssignments ==
    { [status |-> 200,
       body |-> [data |-> << RawAssignment(KANJI, 1,
                                           [srs_stage |-> 1,
                                            available_at |-> "2024-01-01T02:00:00Z"]) >>]] }

\* populate_db called time and again, with assignments() called at any moment
NextCycles ==
    \/ PopulateCall
    \/ PopulateAgain
    \/ Await
    \/ \E k \in SubjectType : Start(k)
    \/ \E k \in SubjectType : \E resp \in CyclePages(k) : Respond(k, resp)
    \/ \E k \in SubjectType : Yield(k)
    \/ \E api_key \in SessionKeys : AssignmentsCall(api_key)
    \/ \E resp \in CycleAssignments : AssignmentsRespond(resp)

SpecCycles == Init /\ [][NextCycles]_vars

\* the startup population and calls of assignments() made with the keys of
\* different sessions, all through the one shared client
NextKeys ==
    \/ PopulateCall
    \/ Await
    \/ \E k \in SubjectType : Start(k)
    \/ \E k \in SubjectType : \E resp \in ChainPages(k) : Respond(k, resp)
    \/ \E k \in SubjectType : Yield(k)
    \/ \E api_key \in BareKeys : AssignmentsCall(api_key)
    \/ \E resp \in CycleAssignments : AssignmentsRespond(resp)

SpecKeys == Init /\ [][NextKeys]_vars

\* the population against single-page collections, with assignments() called
\* at any moment
NextAssignments ==
    \/ PopulateCall
    \/ Await
    \/ \E k \in SubjectType : Start(k)
    \/ \E k \in SubjectType : \E resp \in SinglePages(k) : Respond(k, resp)
    \/ \E k \in SubjectType : Yield(k)
    \/ \E api_key \in SessionKeys : AssignmentsCall(api_key)
    \/ \E resp \in AssignmentsResponses : AssignmentsRespond(resp)

SpecAssignments == Init /\ [][NextAssignments]_vars

(* ------------------------- the route handlers ------------------------- *)
ServingAtOnce == TRUE

\* Starlette runs the on_startup handlers before the application serves a
\* request: the routes answer once populate_db has returned
Serving == populate.pc = "returned"

\* the browser sends a request when it has the answer to the one before
Idle == handler.pc = "idle"

Answer(method, path, resp) == [resp EXCEPT !.request = [method |-> method, path |-> path]]

\* GET /
index ==
    /\ Serving /\ Idle
    /\ response' = Answer("GET", "/",
                          IF is_logged_in(session)
                          THEN RedirectResponse(url_for("assignments"), 307)
                          ELSE RedirectResponse(url_for("login"), 307))
    /\ asg' = NoCall
    /\ UNCHANGED <<popVars, session, handler, lastAuth, probe, httpx_client>>

\* GET, HEAD and POST /login; the POST runs up to `await api.username()`
login(method, form) ==
    /\ Serving /\ Idle
    /\ asg' = NoCall
    /\ IF method = "GET"
       THEN /\ response' = Answer(method, "/login",
                                  IF is_logged_in(session)
                                  THEN RedirectResponse(url_for("assignments"), 307)
                                  ELSE TemplateResponse("login.html.j2",
                                                        [invalid_api_key |-> FALSE], 200))
            /\ UNCHANGED <<handler, httpx_client>>
       ELSE IF method = "POST"
       THEN IF "api_key" \notin DOMAIN form
            THEN \* form["api_key"] raises KeyError
                 /\ response' = Answer(method, "/login", ServerError("KeyError"))
                 /\ UNCHANGED <<handler, httpx_client>>
            ELSE LET api_key == Strip(form.api_key)
                     client == __attrs_post_init__(api_key, httpx_client)
                 IN  /\ httpx_client' = client
                     /\ handler' = [pc |-> "login", form |-> form, api_key |-> api_key,
                                    req |-> username_request(client, api_key)]
                     /\ response' = NoResponse
       ELSE /\ response' = Answer(method, "/login", PlainResponse)
            /\ UNCHANGED <<handler, httpx_client>>
    /\ UNCHANGED <<popVars, session, lastAuth, probe>>

\* POST /login resumes when the key-validation call is answered
login_resume(status) ==
    /\ handler.pc = "login"
    /\ LET err == username(status)
           answer(resp) == [Answer("POST", "/login", resp) EXCEPT !.upstream = status]
       IN  IF err.exc # NoExc
           THEN /\ response' =
                      IF InvalidCredential(err)
                      THEN answer(TemplateResponse("login.html.j2",
                                                   [invalid_api_key |-> TRUE], 401))
                      ELSE answer(ServerError(err.exc))
                /\ UNCHANGED <<session, lastAuth>>
           ELSE /\ session' = SessionSet(session, handler.api_key)
                /\ response' = answer(RedirectResponse(url_for("assignments"), 303))
                /\ lastAuth' = [last |-> "login", ever |-> TRUE]
    /\ handler' = NoHandler
    /\ UNCHANGED <<popVars, asg, probe, httpx_client>>

\* GET /logout
logout ==
    /\ Serving /\ Idle
    /\ session' = SessionClear(session)
    /\ response' = Answer("GET", "/logout", RedirectResponse(url_for("login"), 307))
    /\ lastAuth' = [lastAuth EXCEPT !.last = "logout"]
    /\ asg' = NoCall
    /\ UNCHANGED <<popVars, handler, probe, httpx_client>>

\* GET /assignments, up to the request of api.assignments()
assignments ==
    /\ Serving /\ Idle
    /\ IF ~is_logged_in(session)
       THEN /\ response' = Answer("GET", "/assignments",
                                  RedirectResponse(url_for("login"), 307))
            /\ asg' = NoCall
            /\ UNCHANGED <<handler, httpx_client>>
       ELSE /\ asg' = CallAssignments(session[SESSION_API_KEY])
            /\ httpx_client' = __attrs_post_init__(session[SESSION_API_KEY], httpx_client)
            /\ handler' = [NoHandler EXCEPT !.pc = "assignments"]
            /\ response' = NoResponse
    /\ UNCHANGED <<popVars, session, lastAuth, probe>>

\* GET /assignments resumes when the upstream answers: the list comprehension
\* drains api.assignments(), then the handler sorts, groups and renders
assignments_resume(resp) ==
    /\ handler.pc = "assignments"
    /\ LET call == [AnswerAssignments(asg, resp, DB) EXCEPT !.phase = populate.pc]
           answer(r) == [Answer("GET", "/assignments", r) EXCEPT !.upstream = resp.status]
       IN  /\ asg' = call
           /\ response' =
                 IF call.exc # NoExc
                 THEN answer(ServerError(call.exc))
                 ELSE answer(TemplateResponse("assignments.html.j2",
                                              AssignmentsContext(call.out), 200))
    /\ handler' = NoHandler
    /\ UNCHANGED <<popVars, session, lastAuth, probe, httpx_client>>

\* the application after its startup: the population against single-page
\* collections, then the routes, called with the session of one browser
NextApp ==
    \/ PopulateCall
    \/ Await
    \/ \E k \in SubjectType : Start(k)
    \/ \E k \in SubjectType : \E resp \in SinglePages(k) : Respond(k, resp)
    \/ \E k \in SubjectType : Yield(k)
    \/ index
    \/ \E method \in {"GET", "HEAD", "POST"} : \E form \in Forms : login(method, form)
    \/ \E status \in UserStatuses : login_resume(status)
    \/ logout
    \/ assignments
    \/ \E resp \in AssignmentsResponses \cup AssignmentsResponsesWithCursor :
          assignments_resume(resp)

SpecApp == Init /\ [][NextApp]_vars

\* a client sends a request to the application a server has built with
\* create_app() from the environment's configuration
serve(env, req) ==
    /\ probe' = [sent |-> TRUE, env |-> env, request |-> req, answer |-> Served(env, req)]
    /\ UNCHANGED <<popVars, asg, webVars, httpx_client>>

NextServe == \E env \in Environments : \E req \in ClientRequests : serve(env, req)

SpecServe == Init /\ [][NextServe]_vars

(* ------------------------------ properties ----------------------------- *)
\* the page-shaped answers among the responses a walk has received
IsPage(resp) == "pages" \in DOMAIN resp.body

RECURSIVE Concat(_)
Concat(ps) ==
    IF ps = <<>> THEN <<>>
    ELSE (IF IsPage(Head(ps)) THEN Head(ps).body.data ELSE <<>>) \o Concat(Tail(ps))

IsPrefix(s, t) == Len(s) <= Len(t) /\ s = SubSeq(t, 1, Len(s))

Running(t) == t.pc \in {"created", "wait", "yield"}

\* C1: a walk that has run to its end has yielded exactly the concatenation of
\* the data arrays of the pages it received, in page order and in the order
\* inside each page; it ends at a page whose next_url is null and no request
\* follows that page; before its end it has yielded a prefix of it.
C1_Concatenation ==
    \A k \in SubjectType :
        /\ IsPrefix(yielded[k], Concat(pages[k]))
        /\ Len(requests[k]) <= Len(pages[k]) + 1
        /\ task[k].pc = "done" =>
              /\ yielded[k] = Concat(pages[k])
              /\ pages[k] # <<>>
              /\ pages[k][Len(pages[k])].body.pages.next_url = None
        /\ \A n \in 1..Len(pages[k]) :
              (IsPage(pages[k][n]) /\ pages[k][n].body.pages.next_url = None) =>
                  /\ n = Len(pages[k])
                  /\ Len(requests[k]) = n

C1_Witness ==
    \E k \in SubjectType :
        /\ task[k].pc = "done"
        /\ Len(pages[k]) >= 2
        /\ Len(yielded[k]) >= 2
        /\ yielded[k][1] # yielded[k][2]

\* C2 (as claimed): every request after the first goes to exactly the path and
\* query of the previous page's next_url, and the filter map is not passed again.
C2_AsClaimed ==
    \A k \in SubjectType : \A n \in 2..Len(requests[k]) :
        LET next == pages[k][n - 1].body.pages.next_url
            req == requests[k][n]
        IN  /\ req.path = next.path
            /\ WireQuery(req) = next.query
            /\ req.params = EmptyParams

\* C2 (amended): every request after the first goes to the path of the previous
\* page's next_url with the base URL stripped and carries that URL's query, and
\* the filter map (types of the walk, hidden=false) is passed again with it: on
\* the wire the cursor is the one of next_url, types and hidden are the walk's.
C2_NextUrlFollowed ==
    \A k \in SubjectType : \A n \in 2..Len(requests[k]) :
        LET next == pages[k][n - 1].body.pages.next_url
            req == requests[k][n]
        IN  /\ req.base = next.base
            /\ req.path = next.path
            /\ req.query = next.query
            /\ req.params = [types |-> k, hidden |-> "false"]
            /\ WireQuery(req) =
                  [types |-> k, hidden |-> "false",
                   page_after_id |-> next.query.page_after_id]

C2_Witness ==
    \E k \in SubjectType :
        /\ Len(requests[k]) >= 2
        /\ pages[k][1].body.pages.next_url.query.types # k

\* C3 (as claimed): a page request answered with a non-success status ends the
\* walk there: it is the last answer of the walk, the walk has ended with an
\* error that reaches its consumer, no request follows and no item of that
\* answer is yielded.
C3_AsClaimed ==
    \A k \in SubjectType : \A n \in 1..Len(pages[k]) :
        pages[k][n].status # 200 =>
            /\ n = Len(pages[k])
            /\ task[k].pc = "failed"
            /\ task[k].exc # NoExc
            /\ Len(requests[k]) = n
            /\ Len(yielded[k]) <= Len(Concat(SubSeq(pages[k], 1, n - 1)))

\* every item of the pages received is in the partition
Drained(k) ==
    /\ pages[k] # <<>>
    /\ IsPage(pages[k][Len(pages[k])])
    /\ pages[k][Len(pages[k])].body.pages.next_url = None
    /\ Len(requests[k]) = Len(pages[k])
    /\ task[k].buf = <<>>
    /\ \A n \in 1..Len(pages[k]) : \A i \in 1..Len(pages[k][n].body.data) :
          pages[k][n].body.data[i].id \in DOMAIN DB[k]

\* C4: populate_db has returned only when each of the three streams is
\* drained: its last page had next_url null, no request is in flight, no item
\* of a page is left to yield and every item served is in the partition.
C4_ReturnsWhenDrained ==
    populate.pc = "returned" =>
        \A k \in SubjectType : task[k].pc = "done" /\ Drained(k)

C4_Witness ==
    /\ populate.pc = "returned"
    /\ \E k \in SubjectType : Len(pages[k]) >= 2 /\ DB[k] # EmptyPartition

Failed(k) == task[k].pc = "failed"

\* C5: when a stream has failed populate_db does not return; once it has
\* completed its caller has been given exactly one outcome, the exception of a
\* failed stream, however many streams failed.
C5_FailureOnce ==
    /\ Len(reported) <= 1
    /\ (populate.pc \in {"returned", "raised"}) = (Len(reported) = 1)
    /\ populate.pc = "returned" =>
          /\ reported = << "returned" >>
          /\ \A k \in SubjectType : ~Failed(k)
    /\ populate.pc = "raised" =>
          /\ reported[1] \in {"KeyError", "TypeError"}
          /\ \E k \in SubjectType : Failed(k) /\ task[k].exc = reported[1]
    /\ ((\E k \in SubjectType : Failed(k)) /\ populate.pc = "await") =>
          \/ Running(task[AwaitOrder[populate.at]])
          \/ ENABLED Await

C5_Witness ==
    /\ populate.pc = "raised"
    /\ Cardinality({ k \in SubjectType : Failed(k) }) >= 2

\* C6 (as claimed): populate_db has neither returned nor raised while a child
\* task is still running.
C6_AsClaimed ==
    populate.pc \in {"returned", "raised"} =>
        \A k \in SubjectType : ~Running(task[k])

\* C6 (amended): populate_db does not return while a child task is running;
\* it raises as soon as the child it is awaiting has failed, when the children
\* awaited before it have finished and those awaited after it may still run.
C6_JoinOnSuccess ==
    /\ populate.pc = "returned" => \A k \in SubjectType : task[k].pc = "done"
    /\ populate.pc \in {"await", "raised"} =>
          \A n \in 1..(populate.at - 1) : task[AwaitOrder[n]].pc = "done"
    /\ populate.pc = "raised" => Failed(AwaitOrder[populate.at])

C6_Witness ==
    /\ populate.pc = "raised"
    /\ \E k \in SubjectType : task[k].pc = "wait"

\* the subject _populate_<k> was given for a raw item
SubjectOf(k, raw) == AttrsInit(k, SubjectKwargs(k, raw))

Positions(k, i) == { n \in 1..Len(yielded[k]) : yielded[k][n].id = i }

Last(S) == CHOOSE n \in S : \A m \in S : m <= n

\* C7: when populate_db has returned, each partition has exactly the ids its
\* stream yielded as keys, and maps each to the subject yielded last for it.
C7_PartitionsPopulated ==
    populate.pc = "returned" =>
        \A k \in SubjectType :
            /\ DOMAIN DB[k] = { yielded[k][n].id : n \in 1..Len(yielded[k]) }
            /\ \A i \in DOMAIN DB[k] :
                  DB[k][i] = SubjectOf(k, yielded[k][Last(Positions(k, i))])

C7_Witness ==
    /\ populate.pc = "returned"
    /\ \E k \in SubjectType :
          /\ Len(yielded[k]) = 2
          /\ yielded[k][1].id = yielded[k][2].id
          /\ yielded[k][1] # yielded[k][2]

\* C8: the three tasks are created together, before populate_db awaits any of
\* them: no task has started while another is not yet created, and a created
\* task can issue its first request whatever the other walks are doing.
C8_Concurrent ==
    /\ populate.pc # "idle" => \A k \in SubjectType : task[k].pc # "none"
    /\ \A j, k \in SubjectType : task[j].pc # "none" => task[k].pc # "none"
    /\ \A k \in SubjectType : task[k].pc = "created" => ENABLED Start(k)

\* the first requests of the three kinds are in flight at once
C8_Witness ==
    \A k \in SubjectType :
        /\ task[k].pc = "wait"
        /\ Len(requests[k]) = 1
        /\ pages[k] = <<>>

\* C9: a partition changes only by a step of its own population task, that
\* step changes no other partition, and every entry of a partition is a
\* subject of that partition's class under its own id.
C9_OwnPartitionOnly ==
    /\ [](\A k \in SubjectType : \A i \in DOMAIN DB[k] :
            DB[k][i].class = k /\ DB[k][i].id = i)
    /\ [][\A k \in SubjectType :
            DB'[k] # DB[k] =>
                /\ Yield(k)
                /\ \A j \in SubjectType \ {k} : DB'[j] = DB[j]]_vars

\* the same id is stored under two kinds, as two different subjects
C9_Witness ==
    \E i \in RawIds :
        /\ i \in DOMAIN DB[KANJI]
        /\ i \in DOMAIN DB[VOCABULARY]
        /\ DB[KANJI][i].characters # DB[VOCABULARY][i].characters

\* the raw assignments whose subject is in the partition its subject_type names
Present(raw) ==
    /\ raw.data.subject_type \in SubjectType
    /\ raw.data.subject_id \in DOMAIN DB[raw.data.subject_type]

\* the Assignment the claim expects for a raw assignment
Resolved(raw) ==
    [class |-> "Assignment",
     subject |-> DB[raw.data.subject_type][raw.data.subject_id],
     srs_stage |-> raw.data.srs_stage,
     available_at |-> ParseDatetime(raw.data.available_at)]

\* the step in which a call of assignments() processes its answer
AssignmentsAnswered == asg.pc = "wait" /\ asg'.pc = "done"

\* C10 (as claimed): for every raw assignment of the answer whose subject is
\* present in the partition of its subject_type, the call yields the Assignment
\* with that stored subject and the upstream srs_stage and available_at.
C10_AsClaimed ==
    [][AssignmentsAnswered =>
          \A i \in 1..Len(asg'.data) :
              Present(asg'.data[i]) =>
                  \E j \in 1..Len(asg'.out) : asg'.out[j] = Resolved(asg'.data[i])]_vars

\* C10 (amended): for every raw assignment of the answer that is present in the
\* partition of its subject_type and is preceded only by raw assignments that
\* are present too, the call yields, at the same position, the Assignment with
\* exactly the stored subject of that partition (of that partition's class)
\* and the upstream srs_stage and available_at; the call stops at the first
\* raw assignment it cannot resolve and yields nothing after it.
C10_ResolvesStored ==
    [][AssignmentsAnswered =>
          /\ Len(asg'.out) <= Len(asg'.data)
          /\ \A i \in 1..Len(asg'.data) :
                (\A j \in 1..i : Present(asg'.data[j])) <=>
                    /\ i <= Len(asg'.out)
                    /\ asg'.out[i] = Resolved(asg'.data[i])
                    /\ asg'.out[i].subject.class = asg'.data[i].data.subject_type
                    /\ asg'.out[i].subject.id = asg'.data[i].data.subject_id]_vars

\* a call has resolved an assignment whose subject id is stored under another
\* kind too, next to it
C10_Witness ==
    /\ asg.pc = "done"
    /\ \E i \in 1..Len(asg.out) :
          LET raw == asg.data[i]
          IN  /\ asg.out[i].subject.class = raw.data.subject_type
              /\ asg.out[i].srs_stage = raw.data.srs_stage
              /\ \E k \in SubjectType \ {raw.data.subject_type} :
                    raw.data.subject_id \in DOMAIN DB[k]

\* the first raw assignment of the answer that assignments() cannot resolve
\* is at position i
FirstUnresolved(data, i) ==
    /\ i \in 1..Len(data)
    /\ ~Present(data[i])
    /\ \A j \in 1..(i - 1) : Present(data[j])

\* C11 (as claimed): when the loop reaches a raw assignment whose subject_type
\* names a partition that does not hold its subject_id, the call ends there
\* with UnknownSubjectError; the item is not yielded.
C11_AsClaimed ==
    [][AssignmentsAnswered =>
          \A i \in 1..Len(asg'.data) :
              (FirstUnresolved(asg'.data, i)
                 /\ asg'.data[i].data.subject_type \in SubjectType) =>
                  /\ asg'.exc = "UnknownSubjectError"
                  /\ Len(asg'.out) = i - 1]_vars

\* C12: when the loop reaches a raw assignment whose subject_type is none of
\* "radical", "kanji", "vocabulary", the call ends there with
\* NotImplementedError, which is not the error of a lookup miss; it has
\* yielded the assignments before that item and nothing for it, and it has
\* made no lookup in a partition for it.  The call ends with that error in no
\* other case.
C12_UnknownTypeStops ==
    [][AssignmentsAnswered =>
          /\ \A i \in 1..Len(asg'.data) :
                FirstUnresolved(asg'.data, i) =>
                    IF asg'.data[i].data.subject_type \in {"radical", "kanji", "vocabulary"}
                    THEN asg'.exc \notin {NoExc, "NotImplementedError"}
                    ELSE /\ asg'.exc = "NotImplementedError"
                         /\ Len(asg'.out) = i - 1
                         /\ Len(asg'.reads) = i - 1
                         /\ \A n \in 1..Len(asg'.reads) :
                               /\ asg'.reads[n].partition = asg'.data[n].data.subject_type
                               /\ asg'.reads[n].key = asg'.data[n].data.subject_id
          /\ asg'.exc = "NotImplementedError" =>
                \E i \in 1..Len(asg'.data) :
                    /\ FirstUnresolved(asg'.data, i)
                    /\ asg'.data[i].data.subject_type \notin SubjectType]_vars

\* a call has yielded an assignment and then met one of an unknown type whose
\* subject id is a key of every partition that is not empty
C12_Witness ==
    /\ asg.pc = "done"
    /\ asg.exc = "NotImplementedError"
    /\ Len(asg.out) = 1
    /\ asg.data[2].data.subject_id \in DOMAIN DB[VOCABULARY]

\* the positions of the upstream entries marked accepted_answer
AcceptedIndexes(ms) == { i \in 1..Len(ms) : ms[i].accepted_answer = TRUE }

\* the n-th smallest element of a set of positions
NthOf(S, n) == CHOOSE i \in S : Cardinality({ j \in S : j <= i }) = n

\* list holds the key of exactly the accepted entries of ms, in their order
OnlyAccepted(list, ms, key) ==
    /\ Len(list) = Cardinality(AcceptedIndexes(ms))
    /\ \A n \in 1..Len(list) : list[n] = ms[NthOf(AcceptedIndexes(ms), n)][key]

\* C13: for every raw item a walk has yielded, the meanings list (and for
\* kanji and vocabulary the readings list) given to the subject's class holds
\* exactly the upstream entries with accepted_answer true, in their upstream
\* order; every stored subject has the lists of the raw item it was built from.
C13_OnlyAcceptedAnswers ==
    \A k \in SubjectType :
        /\ \A n \in 1..Len(yielded[k]) :
              LET raw == yielded[k][n]
                  kwargs == SubjectKwargs(k, raw)
              IN  /\ OnlyAccepted(kwargs.meanings, raw.data.meanings, "meaning")
                  /\ k # RADICAL =>
                        OnlyAccepted(kwargs.readings, raw.data.readings, "reading")
        /\ \A i \in DOMAIN DB[k] :
              LET raw == yielded[k][Last(Positions(k, i))]
              IN  /\ OnlyAccepted(DB[k][i].meanings, raw.data.meanings, "meaning")
                  /\ k # RADICAL =>
                        OnlyAccepted(DB[k][i].readings, raw.data.readings, "reading")

\* a stored subject whose raw item lists an entry that is not accepted before
\* two accepted ones, and another whose raw item drops its first reading
C13_Witness ==
    \E k \in SubjectType : \E i, j \in DOMAIN DB[k] :
        /\ DB[k][i].meanings = << "m3", "m1" >>
        /\ DB[k][i].readings = << "r2", "r1" >>
        /\ DB[k][j].meanings = << "m1" >>
        /\ DB[k][j].readings = << "r2" >>

\* C19: on the wire every page request of the walk of kind k has types = k
\* and hidden = false, also when it follows a next_url whose query names
\* another type; the first request has no cursor, every later one has the
\* page_after_id of the next_url it follows, and no other parameter.
C19_FilterOnEveryRequest ==
    \A k \in SubjectType : \A n \in 1..Len(requests[k]) :
        LET wire == WireQuery(requests[k][n])
        IN  /\ wire.types = k
            /\ wire.hidden = "false"
            /\ IF n = 1
               THEN DOMAIN wire = {"types", "hidden"}
               ELSE /\ DOMAIN wire = {"types", "hidden", "page_after_id"}
                    /\ wire.page_after_id =
                          pages[k][n - 1].body.pages.next_url.query.page_after_id

\* the vocabulary walk has followed a next_url that names types=kanji
C19_Witness ==
    /\ Len(requests[VOCABULARY]) = 2
    /\ pages[VOCABULARY][1].body.pages.next_url.query.types = KANJI
    /\ WireQuery(requests[VOCABULARY][2]).page_after_id = 1

\* how often e occurs in the sequence
Count(seq, e) == Cardinality({ n \in 1..Len(seq) : seq[n] = e })

Ascending(list) ==
    \A m, n \in 1..Len(list) : m < n => list[m].available_at <= list[n].available_at

Rendered == response.template = "assignments.html.j2"

\* C14: when GET /assignments has rendered its template, the call of
\* assignments() has run to its end over the whole answer, each of the three
\* lists holds only assignments whose subject is of the list's kind, every
\* assignment the call yielded is in the three lists together as often as it
\* was yielded, and each list is in ascending order of available_at.
C14_GroupedAndSorted ==
    Rendered =>
        LET ctx == response.context
            all == ctx.radicals \o ctx.kanji \o ctx.vocabulary
        IN  /\ response.status = 200
            /\ asg.pc = "done" /\ asg.exc = NoExc
            /\ Len(asg.out) = Len(asg.data)
            /\ \A n \in 1..Len(ctx.radicals) : ctx.radicals[n].subject.class = "radical"
            /\ \A n \in 1..Len(ctx.kanji) : ctx.kanji[n].subject.class = "kanji"
            /\ \A n \in 1..Len(ctx.vocabulary) : ctx.vocabulary[n].subject.class = "vocabulary"
            /\ Len(all) = Len(asg.out)
            /\ \A n \in 1..Len(asg.out) : Count(all, asg.out[n]) = Count(asg.out, asg.out[n])
            /\ Ascending(ctx.radicals) /\ Ascending(ctx.kanji) /\ Ascending(ctx.vocabulary)

\* a page was rendered from two assignments that the upstream listed latest
\* first
C14_Witness ==
    /\ Rendered
    /\ \E k \in {"kanji", "vocabulary"} :
          /\ Len(response.context[k]) = 2
          /\ asg.out[1].available_at > asg.out[2].available_at
          /\ response.context[k] = << asg.out[2], asg.out[1] >>

\* the step in which POST /login gets the answer of its key-validation call
LoginAnswered == handler.pc = "login" /\ handler'.pc = "idle"

\* the key in the Authorization header of the validation request is key
Validated(req, key) == req.path = "user" /\ req.headers.Authorization = "Bearer " \o key

\* key is what the browser typed, without the whitespace around it
Trimmed(typed, key) ==
    /\ key \in BareKeys
    /\ \E pre, post \in {"", " ", "    "} : typed = pre \o key \o post

\* the session gets or changes its key only in a POST /login whose validation
\* request carried that key, the typed key without surrounding whitespace,
\* and was answered with success
KeyStoredIsValidated ==
    /\ session' # session /\ is_logged_in(session') =>
          /\ LoginAnswered
          /\ response'.upstream = 200
    /\ LoginAnswered /\ response'.upstream = 200 =>
          /\ is_logged_in(session')
          /\ Validated(handler.req, session'[SESSION_API_KEY])
          /\ Trimmed(handler.form.api_key, session'[SESSION_API_KEY])

\* C15 (as claimed): the session gets a key only from a POST /login whose
\* validation call with that key succeeded, and after a POST /login whose
\* validation call failed the session holds no key.
C15_AsClaimed ==
    [][/\ KeyStoredIsValidated
       /\ LoginAnswered /\ response'.upstream # 200 => ~is_logged_in(session')]_vars

\* C15 (amended): the session gets a key only from a POST /login whose
\* validation call with that key succeeded, and a POST /login whose validation
\* call failed leaves the session as it was: without a key if it had none,
\* with the key validated before if the browser was logged in.
C15_KeyOnlyIfValidated ==
    [][/\ KeyStoredIsValidated
       /\ LoginAnswered /\ response'.upstream # 200 => session' = session]_vars

\* a login has failed in a session that holds the key of an earlier login
C15_Witness ==
    /\ is_logged_in(session)
    /\ response.request = [method |-> "POST", path |-> "/login"]
    /\ response.upstream = 401

\* C16: a POST /login whose validation call is answered 401 renders the login
\* form with invalid_api_key true and status 401; one answered with any other
\* error status ends with the upstream's error and is answered 500, without
\* the login form.
C16_Only401IsInvalidKey ==
    [][LoginAnswered =>
          /\ response'.upstream = 401 =>
                /\ response'.status = 401
                /\ response'.template = "login.html.j2"
                /\ response'.context.invalid_api_key = TRUE
                /\ response'.exc = NoExc
          /\ response'.upstream \notin {200, 401} =>
                /\ response'.status = 500
                /\ response'.exc = "HTTPStatusError"
                /\ response'.template = ""
                /\ DOMAIN response'.context = {}]_vars

\* logins answered with the two kinds of failure
C16_Witness ==
    /\ response.request = [method |-> "POST", path |-> "/login"]
    /\ response.upstream = 403
    /\ response.status = 500

\* the step that answers a request for path with a redirect or a page
Answered(method, path) ==
    /\ response' # response
    /\ response'.request = [method |-> method, path |-> path]

\* C17: the session holds a key exactly when its last successful login was
\* not followed by a logout; without a key GET / and GET /assignments are
\* redirected to /login, and an assignments request goes upstream only for a
\* session that holds a key, with that key; with a key GET / and GET /login
\* are redirected to /assignments.
C17_LoggedInIffLastLogin ==
    /\ [](is_logged_in(session) <=> lastAuth.last = "login")
    /\ [][/\ Answered("GET", "/") =>
                /\ response'.status = 307
                /\ response'.location =
                      IF is_logged_in(session) THEN "/assignments" ELSE "/login"
          /\ (Answered("GET", "/assignments") /\ ~is_logged_in(session)) =>
                /\ response'.status = 307
                /\ response'.location = "/login"
                /\ asg'.pc = "idle"
          /\ (Answered("GET", "/login") /\ is_logged_in(session)) =>
                /\ response'.status = 307
                /\ response'.location = "/assignments"
          /\ (asg.pc # "wait" /\ asg'.pc = "wait") =>
                /\ is_logged_in(session)
                /\ asg'.req.headers.Authorization =
                      "Bearer " \o session[SESSION_API_KEY]]_vars

\* a browser that was logged in and has logged out asks for its assignments
C17_Witness ==
    /\ lastAuth = [last |-> "logout", ever |-> TRUE]
    /\ response.request = [method |-> "GET", path |-> "/assignments"]
    /\ response.location = "/login"

\* C18 (as claimed): with HTTPS_ONLY enabled, a plain-http request for
\* /__lbheartbeat__ is answered 200 "OK" by the heartbeat middleware, before
\* the trusted-host, HTTPS-redirect and session middleware have run, and every
\* other plain-http request is redirected to https.
C18_AsClaimed ==
    (/\ probe.sent
     /\ probe.env.HTTPS_ONLY
     /\ probe.request.type = "http"
     /\ ~probe.request.secure) =>
        IF probe.request.path = "/__lbheartbeat__"
        THEN /\ probe.answer.status = 200
             /\ probe.answer.body = "OK"
             /\ probe.answer.by = "LBHeartbeatMiddleware"
             /\ \A n \in 1..Len(probe.answer.ran) :
                   probe.answer.ran[n] \notin
                       {"TrustedHostMiddleware", "HTTPSRedirectMiddleware", "SessionMiddleware"}
        ELSE /\ probe.answer.status = 307
             /\ probe.answer.by = "HTTPSRedirectMiddleware"

\* the step in which GET /assignments gets the answer of api.assignments()
AssignmentsHandled == handler.pc = "assignments" /\ handler'.pc = "idle"

\* C20: the assignments a call of assignments() has yielded are, position by
\* position, those of the upstream answer: the n-th yielded has the subject
\* reference, srs_stage and available_at of the n-th raw assignment, whatever
\* the order of their available_at; the lists the handler renders from them
\* are in ascending order.
C20_UpstreamOrder ==
    [][AssignmentsHandled =>
          /\ Len(asg'.out) <= Len(asg'.data)
          /\ \A n \in 1..Len(asg'.out) :
                LET raw == asg'.data[n].data
                IN  /\ asg'.out[n].subject.id = raw.subject_id
                    /\ asg'.out[n].subject.class = raw.subject_type
                    /\ asg'.out[n].srs_stage = raw.srs_stage
                    /\ asg'.out[n].available_at = ParseDatetime(raw.available_at)
          /\ response'.status = 200 =>
                \A k \in {"radicals", "kanji", "vocabulary"} :
                    Ascending(response'.context[k])]_vars

\* a call has yielded a later assignment before an earlier one of another
\* subject, and the handler has rendered them
C20_Witness ==
    /\ Rendered
    /\ Len(asg.out) = 2
    /\ asg.out[1].available_at > asg.out[2].available_at
    /\ asg.out[1].subject # asg.out[2].subject

\* C30 (as claimed): radicals() yields one Radical for every raw radical item
\* _subjects hands it: the radical stream never ends with the TypeError of a
\* missing constructor argument, and every raw radical item taken from a page
\* has its Radical in the radical partition.
C30_AsClaimed ==
    /\ task[RADICAL].exc # "TypeError"
    /\ \A n \in 1..Len(yielded[RADICAL]) :
          yielded[RADICAL][n].id \in DOMAIN DB[RADICAL]

\* the items of the pages a walk received before its last one
EarlierItems(k) == Concat(SubSeq(pages[k], 1, Len(pages[k]) - 1))

\* C23: when the stream of a kind has failed at a page, the subjects of the
\* pages before it are in its partition, each id with the subject yielded last
\* for it; the failing step changes no partition, the partition of a failed
\* stream changes no more, and the streams of the other kinds go on storing.
C23_FailureKeepsInserted ==
    /\ [](\A k \in SubjectType :
            Failed(k) =>
                /\ \A n \in 1..Len(EarlierItems(k)) :
                      LET i == EarlierItems(k)[n].id
                      IN  /\ i \in DOMAIN DB[k]
                          /\ DB[k][i] = SubjectOf(k, yielded[k][Last(Positions(k, i))])
                /\ \A j \in SubjectType \ {k} :
                      task[j].pc = "yield" => ENABLED Yield(j))
    /\ [][\A k \in SubjectType :
            /\ (~Failed(k) /\ task'[k].pc = "failed") => DB' = DB
            /\ (Failed(k) /\ task'[k].pc = "failed") => DB'[k] = DB[k]]_vars

\* the kanji stream has failed at its second page with a subject of its first
\* page stored, and the vocabulary stream has run to its end and stored one
C23_Witness ==
    /\ Failed(KANJI)
    /\ task[KANJI].exc = "KeyError"
    /\ Len(pages[KANJI]) = 2
    /\ DB[KANJI] # EmptyPartition
    /\ task[VOCABULARY].pc = "done"
    /\ DB[VOCABULARY] # EmptyPartition

IsSuffix(s, t) == Len(s) <= Len(t) /\ s = SubSeq(t, Len(t) - Len(s) + 1, Len(t))

\* C28: a walk has at most one request in flight and none ahead of its
\* consumer: while the request for the next page is in flight every item of
\* the pages received has been taken; while items of a page are left to take
\* no request is in flight and the items left are the rest of the page
\* received last; a walk whose consumer has stopped issues no further request.
C28_OnDemand ==
    /\ [](\A k \in SubjectType :
            /\ Len(requests[k]) - Len(pages[k]) \in {0, 1}
            /\ Len(requests[k]) > Len(pages[k]) =>
                  /\ task[k].pc = "wait"
                  /\ task[k].buf = <<>>
                  /\ yielded[k] = Concat(pages[k])
            /\ task[k].buf # <<>> =>
                  /\ Len(requests[k]) = Len(pages[k])
                  /\ IsSuffix(task[k].buf, pages[k][Len(pages[k])].body.data))
    /\ [][\A k \in SubjectType :
            (Failed(k) /\ task'[k].pc = "failed") => requests'[k] = requests[k]]_vars

\* the consumer of the radical walk has stopped at the first item of a page
\* of two that names a next page, and the walk has issued one request
C28_Witness ==
    /\ Failed(RADICAL)
    /\ task[RADICAL].exc = "TypeError"
    /\ Len(task[RADICAL].buf) = 2
    /\ task[RADICAL].next_url # None
    /\ Len(requests[RADICAL]) = 1
    /\ populate.pc = "raised"

\* the subject a raw assignment names is an item of a page the stream of its
\* subject_type was served
InStreams(raw) ==
    /\ raw.data.subject_type \in SubjectType
    /\ \E n \in 1..Len(pages[raw.data.subject_type]) :
          LET page == pages[raw.data.subject_type][n]
          IN  /\ IsPage(page)
              /\ \E m \in 1..Len(page.body.data) :
                    page.body.data[m].id = raw.data.subject_id

\* C25: a call of assignments() answered when populate_db has returned, with
\* raw assignments that all name subjects the subject streams were served,
\* makes one lookup per raw assignment, each a hit, yields the Assignment of
\* each in order and ends without a lookup error.
C25_NoMissAfterPopulation ==
    [][(/\ AssignmentsAnswered
        /\ populate.pc = "returned"
        /\ \A i \in 1..Len(asg'.data) : InStreams(asg'.data[i])) =>
          /\ Len(asg'.out) = Len(asg'.data)
          /\ Len(asg'.reads) = Len(asg'.data)
          /\ \A i \in 1..Len(asg'.data) : asg'.out[i] = Resolved(asg'.data[i])
          /\ asg'.data # <<>> => asg'.exc = NoExc]_vars

\* a call answered after populate_db returned has resolved a kanji and a
\* vocabulary assignment
C25_Witness ==
    /\ asg.pc = "done"
    /\ asg.phase = "returned"
    /\ asg.exc = NoExc
    /\ Len(asg.out) = 2
    /\ asg.out[1].subject.class # asg.out[2].subject.class

\* C26: a call of assignments() whose request is in flight can process its
\* answer wherever populate_db and its tasks are; the step that processes it
\* moves neither populate_db nor a task, and its outcome is that of the
\* partitions as they are in that step: it ends with the lookup error at the
\* first raw assignment of a known kind whose id its partition does not hold
\* then, and with none when the partitions hold them all.
C26_ReadsWithoutWaiting ==
    /\ [](asg.pc = "wait" =>
            ENABLED AssignmentsRespond([status |-> 200, body |-> [data |-> <<>>]]))
    /\ [][AssignmentsAnswered =>
            /\ UNCHANGED popVars
            /\ \A i \in 1..Len(asg'.data) :
                  (FirstUnresolved(asg'.data, i)
                     /\ asg'.data[i].data.subject_type \in SubjectType) =>
                      /\ asg'.exc = "KeyError"
                      /\ Len(asg'.out) = i - 1
            /\ (asg'.data # <<>> /\ \A i \in 1..Len(asg'.data) : Present(asg'.data[i])) =>
                  asg'.exc = NoExc /\ Len(asg'.out) = Len(asg'.data)]_vars

\* a call answered while populate_db was awaiting its tasks ended with a
\* lookup miss for a subject that is in its partition now
C26_Witness ==
    /\ asg.pc = "done"
    /\ asg.phase = "await"
    /\ asg.exc = "KeyError"
    /\ Len(asg.data) > Len(asg.out)
    /\ Present(asg.data[Len(asg.out) + 1])
    /\ populate.pc = "returned"

\* C27: a call of assignments() has issued one GET, to the assignments
\* resource with the query srs_stages=1,2,3,4&hidden=false and nothing else;
\* when that request is answered the call runs to its end without issuing
\* another one, whether or not the answer names a next page.
C27_OneRequest ==
    /\ [](asg.pc # "idle" =>
            /\ asg.req.base = BASE_URL
            /\ asg.req.path = "assignments"
            /\ WireQuery(asg.req) = [srs_stages |-> "1,2,3,4", hidden |-> "false"])
    /\ [][AssignmentsHandled =>
            /\ asg'.pc = "done"
            /\ asg'.req = asg.req]_vars

\* the handler has rendered the assignments of an answer that names a next page
C27_Witness ==
    /\ Rendered
    /\ asg.pc = "done"
    /\ asg.cursor # None
    /\ asg.out # <<>>

C29_WalkTerminates ==
    /\ \A k \in SubjectType :
          (task[k].pc = "created") ~> (task[k].pc \in {"done", "failed"})
    /\ [](\A k \in SubjectType :
            requests[k] # <<>> =>
                /\ requests[k][1].path = "subjects"
                /\ DOMAIN WireQuery(requests[k][1]) = {"types", "hidden"})
    /\ [][\A k \in SubjectType :
            task'[k].next_url # task[k].next_url =>
                /\ task[k].pc = "created" \/ pages'[k] # pages[k]
                /\ \A j \in SubjectType \ {k} : task'[j] = task[j]]_vars

\* a walk of two pages has come to its end next to a walk that has failed
C29_Witness ==
    \E j, k \in SubjectType :
        /\ task[k].pc = "done"
        /\ Len(pages[k]) = 2
        /\ Len(yielded[k]) >= 1
        /\ task[j].pc = "failed"

\* C21: in every step, whichever of a populate_db cycle, a further call of
\* populate_db or a call of assignments() takes it, each partition keeps every
\* key it has; the value of a key changes only in the step in which the
\* population task of that partition stores the item it has just been
\* yielded, whose id is that key, and the new value is the subject built from
\* that item.
C21_KeysOnlyGrow ==
    [][\A k \in SubjectType :
          /\ DOMAIN DB[k] \subseteq DOMAIN DB'[k]
          /\ \A i \in DOMAIN DB[k] :
                DB'[k][i] # DB[k][i] =>
                    /\ task[k].pc = "yield"
                    /\ Head(task[k].buf).id = i
                    /\ yielded'[k] = Append(yielded[k], Head(task[k].buf))
                    /\ DB'[k][i] = SubjectOf(k, Head(task[k].buf))]_vars

\* in the second cycle a key of the first cycle has another value, a key has
\* been added, and a call of assignments() has been answered in between
C21_Witness ==
    /\ Len(reported) = 2
    /\ asg.pc = "done"
    /\ asg.phase = "await"
    /\ \E i \in DOMAIN previous.DB[KANJI] : DB[KANJI][i] # previous.DB[KANJI][i]
    /\ \E k \in SubjectType : DOMAIN DB[k] # DOMAIN previous.DB[k]

\* C22: when populate_db has returned, is called again and returns again
\* after its three streams were served the same pages as in the cycle before,
\* the store is equal to the store the cycle before left.
C22_Idempotent ==
    (/\ populate.pc = "returned"
     /\ previous.outcome = "returned"
     /\ pages = previous.pages) => DB = previous.DB

\* a second cycle has returned after the same pages as the first, which
\* served a kanji and a vocabulary item
C22_Witness ==
    /\ populate.pc = "returned"
    /\ previous.outcome = "returned"
    /\ pages = previous.pages
    /\ DB[KANJI] # EmptyPartition
    /\ DB[VOCABULARY] # EmptyPartition

\* C31: a step of a call of assignments(), the one that issues its request or
\* the one that processes the answer, with or without an exception, leaves
\* every partition as it is; every entry of a partition is a subject of the
\* partition's class, never an Assignment.
C31_StoreUntouched ==
    /\ [](\A k \in SubjectType : \A i \in DOMAIN DB[k] :
            DB[k][i].class = k /\ DB[k][i].class # "Assignment")
    /\ [][asg' # asg => DB' = DB]_vars

\* a call has yielded an assignment from the store and then ended with an
\* exception
C31_Witness ==
    /\ asg.pc = "done"
    /\ Len(asg.out) = 1
    /\ asg.exc # NoExc
    /\ asg.reads # <<>>
    /\ DB[asg.reads[1].partition] # EmptyPartition

\* the API keys the program holds
AllKeys == BareKeys \cup SessionKeys \cup {WANIKANI_API_KEY}

\* C32: every request of the startup population carries the bearer key of the
\* population client, and the request of a call of assignments() the key of
\* the instance it was called on, whatever the other instances have sent
\* through the shared client in between; the default headers of the shared
\* client never change, have no Authorization entry and hold no key.
C32_OwnKey ==
    /\ [](\A k \in SubjectType : \A n \in 1..Len(requests[k]) :
            /\ "Authorization" \in DOMAIN requests[k][n].headers
            /\ requests[k][n].headers.Authorization = "Bearer " \o WANIKANI_API_KEY)
    /\ [](asg.pc # "idle" =>
            /\ "Authorization" \in DOMAIN asg.req.headers
            /\ asg.req.headers.Authorization = "Bearer " \o asg.api_key)
    /\ [](/\ "Authorization" \notin DOMAIN httpx_client.headers
          /\ \A h \in DOMAIN httpx_client.headers : \A key \in AllKeys :
                httpx_client.headers[h] \notin {key, "Bearer " \o key})
    /\ [][httpx_client' = httpx_client]_vars

\* the request of a session is in flight between the first and the second
\* request of a population walk
C32_Witness ==
    /\ asg.pc = "wait"
    /\ asg.api_key = "key-2"
    /\ \E k \in SubjectType :
          /\ Len(requests[k]) = 1
          /\ Len(pages[k]) = 1
          /\ task[k].pc = "yield"
          /\ task[k].next_url # None

====
